---- MODULE Spec2Model ----
(***************************************************************************)
(* Lexer and recursive-descent parser of the tape-script front end         *)
(* (src/src/lexer.rs, src/src/token.rs, src/src/parser.rs), and the frame  *)
(* capture of burn (src/src/burn.rs).                                      *)
(*                                                                         *)
(* A source is a TLA+ string; SubSeq(src, i, i) is its i-th character.     *)
(* A panic of the Rust program (slice out of range, slice off a character  *)
(* boundary, unwrap of an Err) is modelled as pc = "panicked" with the     *)
(* cause in the variable panic.                                            *)
(***************************************************************************)
EXTENDS Integers, Sequences, FiniteSets, TLC

VARIABLES input, lexer, current_token, peek_token, errors, commands, ret, ntokens, pc, panic

\* burn: the Sender each Listener holds, the listeners Exit was delivered to, the
\* messages in the wakeup channel, the Wakeup events delivered, count and the frames of
\* the sequence, and the position of burn
VARIABLES mister, exited, channel, wakeups, count, frames, at

parse_vars == <<input, lexer, current_token, peek_token, errors, commands, ret, ntokens, pc, panic>>

burn_vars == <<mister, exited, channel, wakeups, count, frames, at>>

vars == <<input, lexer, current_token, peek_token, errors, commands, ret, ntokens, pc, panic, mister, exited, channel, wakeups, count, frames, at>>

(***************************************************************************)
(* Option<T>                                                               *)
(***************************************************************************)
None == [some |-> FALSE]

Some(v) == [some |-> TRUE, val |-> v]

(***************************************************************************)
(* Characters                                                              *)
(***************************************************************************)
Digits == {"0", "1", "2", "3", "4", "5", "6", "7", "8", "9"}

UpperLetters == {"A", "B", "C", "D", "E", "F", "G", "H", "I", "J", "K", "L", "M", "N", "O", "P", "Q", "R", "S", "T", "U", "V", "W", "X", "Y", "Z"}

LowerLetters == {"a", "b", "c", "d", "e", "f", "g", "h", "i", "j", "k", "l", "m", "n", "o", "p", "q", "r", "s", "t", "u", "v", "w", "x", "y", "z"}

\* letters of more than one byte in UTF-8.  The strings of the model are ASCII; the
\* character $ in them stands for the letter U+00E9 (e with acute accent, two bytes)
MultiByteLetters == {"$"}

is_ascii_digit(ch) == ch \in Digits

is_alphabetic(ch) == ch \in UpperLetters \cup LowerLetters \cup MultiByteLetters

is_alphanumeric(ch) == is_alphabetic(ch) \/ is_ascii_digit(ch)

is_whitespace(ch) == ch \in {" ", "\n", "\t", "\r"}

\* number of bytes of the UTF-8 encoding of a character
len_utf8(ch) == IF ch \in MultiByteLetters THEN 2 ELSE 1

CharAt(src, i) == SubSeq(src, i, i)

\* the backtick character (written inside a quoted pair, as the TLA+ lexer requires)
Backtick == SubSeq("`'", 1, 1)

(***************************************************************************)
(* &str byte slicing: input[a..b] with a, b byte offsets.  It panics when  *)
(* a > b, when b is past the end, or when a or b is inside a character.    *)
(***************************************************************************)
RECURSIVE ByteOffset(_, _)
\* byte offset of the end of the first n characters of src
ByteOffset(src, n) == IF n = 0 THEN 0 ELSE ByteOffset(src, n - 1) + len_utf8(CharAt(src, n))

IsCharBoundary(src, b) == \E n \in 0..Len(src) : ByteOffset(src, n) = b

CharsBefore(src, b) == CHOOSE n \in 0..Len(src) : ByteOffset(src, n) = b

SliceOk(src, a, b) == a <= b /\ IsCharBoundary(src, a) /\ IsCharBoundary(src, b)

Slice(src, a, b) == SubSeq(src, CharsBefore(src, a) + 1, CharsBefore(src, b))

(***************************************************************************)
(* Tokens (src/src/token.rs)                                               *)
(***************************************************************************)
KEYWORDS == [em |-> "Em", px |-> "Px", ms |-> "Milliseconds", s |-> "Seconds", m |-> "Minutes", Set |-> "Set", Sleep |-> "Sleep", Type |-> "Type", Enter |-> "Enter", Space |-> "Space", Backspace |-> "Backspace", Delete |-> "Delete", Insert |-> "Insert", Ctrl |-> "Ctrl", Alt |-> "Alt", Shift |-> "Shift", Down |-> "Down", Left |-> "Left", Right |-> "Right", Up |-> "Up", PageUp |-> "PageUp", PageDown |-> "PageDown", Tab |-> "Tab", Escape |-> "Escape", End |-> "End", Hide |-> "Hide", Require |-> "Require", Show |-> "Show", Output |-> "Output", Shell |-> "Shell", FontFamily |-> "FontFamily", MarginFill |-> "MarginFill", Margin |-> "Margin", WindowBar |-> "WindowBar", WindowBarSize |-> "WindowBarSize", BorderRadius |-> "BorderRadius", FontSize |-> "FontSize", Framerate |-> "Framerate", Height |-> "Height", LetterSpacing |-> "LetterSpacing", LineHeight |-> "LineHeight", PlaybackSpeed |-> "PlaybackSpeed", TypingSpeed |-> "TypingSpeed", Padding |-> "Padding", Theme |-> "Theme", Width |-> "Width", LoopOffset |-> "LoopOffset", WaitTimeout |-> "WaitTimeout", WaitPattern |-> "WaitPattern", Wait |-> "Wait", Source |-> "Source", CursorBlink |-> "CursorBlink", true |-> "Boolean", false |-> "Boolean", Screenshot |-> "Screenshot", Copy |-> "Copy", Paste |-> "Paste", Env |-> "Env"]

lookup_identifier(identifier) == IF identifier \in DOMAIN KEYWORDS THEN KEYWORDS[identifier] ELSE "String"

is_setting(token_type) == token_type \in {"Shell", "FontFamily", "FontSize", "LetterSpacing", "LineHeight", "Framerate", "TypingSpeed", "Theme", "PlaybackSpeed", "Height", "Width", "Padding", "LoopOffset", "MarginFill", "Margin", "WindowBar", "WindowBarSize", "BorderRadius", "CursorBlink", "WaitTimeout", "WaitPattern"}

is_modifier(token_type) == token_type \in {"Alt", "Shift"}

\* Token::default(): every field at its type's default; the kind is always overwritten
DefaultToken == [token_type |-> "Illegal", literal |-> "", line |-> 0, column |-> 0]

(***************************************************************************)
(* Lexer (src/src/lexer.rs).  A lexer is the record                        *)
(*   [position, line, column, current_char]                                *)
(* position is also the number of characters the chars iterator has given. *)
(***************************************************************************)
peek_char(src, lx) == IF lx.position < Len(src) THEN Some(CharAt(src, lx.position + 1)) ELSE None

read_char(src, lx) == LET next == peek_char(src, lx) IN [lx EXCEPT !.column = @ + 1, !.current_char = next, !.position = IF next.some THEN @ + 1 ELSE @]

LexerNew(src) == read_char(src, [position |-> 0, line |-> 1, column |-> 0, current_char |-> None])

RECURSIVE skip_whitespace(_, _)
skip_whitespace(src, lx) == IF lx.current_char.some /\ is_whitespace(lx.current_char.val) THEN skip_whitespace(src, read_char(src, IF lx.current_char.val = "\n" THEN [lx EXCEPT !.line = @ + 1, !.column = 0] ELSE lx)) ELSE lx

new_token(lx, token_type, ch) == [token_type |-> token_type, literal |-> ch, line |-> lx.line, column |-> lx.column]

\* the result of a scanning helper, input[start_pos..end_pos]: the lexer after it, and
\* the text, or ok = FALSE when the slice panics
SliceResult(src, lx, ok, start_pos, end_pos) == [lx |-> lx, ok |-> ok, text |-> IF ok THEN Slice(src, start_pos, end_pos) ELSE ""]

Scanned(src, lx, start_pos, end_pos) == SliceResult(src, lx, SliceOk(src, start_pos, end_pos), start_pos, end_pos)

RECURSIVE CommentLoop(_, _)
\* the loop of read_comment, after its read_char: break at the end of input or of the line
CommentTest(src, l1) == IF ~l1.current_char.some \/ l1.current_char.val \in {"\n", "\r"} THEN l1 ELSE CommentLoop(src, l1)

CommentLoop(src, lx) == CommentTest(src, read_char(src, lx))

CommentEnd(src, start_pos, l1) == Scanned(src, l1, start_pos, l1.position - 1)

read_comment(src, lx) == CommentEnd(src, lx.position, CommentLoop(src, lx))

RECURSIVE StringLoop(_, _, _)
\* the loop of read_string, after its read_char: break at the end character, at the end
\* of input or of the line
StringTest(src, l1, end_char) == IF ~l1.current_char.some \/ l1.current_char.val \in {end_char, "\n", "\r"} THEN l1 ELSE StringLoop(src, l1, end_char)

StringLoop(src, lx, end_char) == StringTest(src, read_char(src, lx), end_char)

StringEnd(src, start_pos, l1) == Scanned(src, l1, start_pos, l1.position - 1)

read_string(src, lx, end_char) == StringEnd(src, lx.position, StringLoop(src, lx, end_char))

RECURSIVE NumberLoop(_, _)
NumberLoop(src, lx) == IF lx.current_char.some /\ (is_ascii_digit(lx.current_char.val) \/ lx.current_char.val = ".") THEN NumberLoop(src, read_char(src, lx)) ELSE lx

NumberEnd(src, start_pos, l1) == Scanned(src, l1, start_pos, l1.position - 1)

read_number(src, lx) == NumberEnd(src, lx.position - 1, NumberLoop(src, lx))

RECURSIVE IdentifierLoop(_, _)
IdentifierLoop(src, lx) == IF lx.current_char.some /\ (is_alphanumeric(lx.current_char.val) \/ lx.current_char.val \in {".", "-", "_", "/", "%"}) THEN IdentifierLoop(src, read_char(src, lx)) ELSE lx

IdentifierEnd(src, start_pos, l1) == Scanned(src, l1, start_pos, l1.position - 1)

read_identifier(src, lx) == IdentifierEnd(src, lx.position - 1, IdentifierLoop(src, lx))

\* the single-character operator tokens of next_token
OperatorKind == [c \in {"@", "=", "]", "[", "-", "%", "^", "\\", "+"} |-> CASE c = "@" -> "At" [] c = "=" -> "Equal" [] c = "]" -> "RightBracket" [] c = "[" -> "LeftBracket" [] c = "-" -> "Minus" [] c = "%" -> "Percent" [] c = "^" -> "Caret" [] c = "\\" -> "Backslash" [] c = "+" -> "Plus"]

\* a token made from Token::default() with the kind and the literal set
LiteralToken(token_type, literal) == [DefaultToken EXCEPT !.token_type = token_type, !.literal = literal]

\* the kind of the delimited literal an opening character starts
Delimited == [c \in {Backtick, "'", "\"", "/"} |-> IF c = "/" THEN "Regex" ELSE "String"]

\* the literal of the Eof token, the one-character string "\0" (NUL) of the source
NulLiteral == "<NUL>"

LexResult(tok, lx, ok) == [tok |-> tok, lx |-> lx, ok |-> ok]

\* next_token, the arm of '#'
CommentToken(r) == LexResult(LiteralToken("Comment", r.text), r.lx, r.ok)

\* next_token, the arm of '{'
JsonToken(src, r) == LexResult(LiteralToken("Json", "{" \o r.text \o "}"), read_char(src, r.lx), r.ok)

\* next_token, the arms of the four quote characters
DelimitedToken(src, token_type, r) == LexResult(LiteralToken(token_type, r.text), read_char(src, r.lx), r.ok)

\* next_token, the Number arm
NumberToken(r) == LexResult(LiteralToken("Number", r.text), r.lx, r.ok)

\* next_token, the identifier arm
IdentifierToken(r) == LexResult(LiteralToken(lookup_identifier(r.text), r.text), r.lx, r.ok)

\* the match on current_char with a number recognised only when a character follows its first digit
ScanTokenPeeking(src, lx, ch) ==
  IF ~lx.current_char.some THEN LexResult(LiteralToken("Eof", NulLiteral), lx, TRUE)
  ELSE IF ch \in DOMAIN OperatorKind THEN LexResult(new_token(lx, OperatorKind[ch], ch), read_char(src, lx), TRUE)
  ELSE IF ch = "#" THEN CommentToken(read_comment(src, lx))
  ELSE IF ch = "{" THEN JsonToken(src, read_string(src, lx, "}"))
  ELSE IF ch \in DOMAIN Delimited THEN DelimitedToken(src, Delimited[ch], read_string(src, lx, ch))
  ELSE IF peek_char(src, lx).some /\ (is_ascii_digit(ch) \/ (ch = "." /\ is_ascii_digit(peek_char(src, lx).val))) THEN NumberToken(read_number(src, lx))
  ELSE IF is_alphabetic(ch) THEN IdentifierToken(read_identifier(src, lx))
  ELSE LexResult(new_token(lx, "Illegal", ch), read_char(src, lx), TRUE)

\* next_token after skip_whitespace: the match on current_char
ScanToken(src, lx, ch) ==
  IF ~lx.current_char.some THEN LexResult(LiteralToken("Eof", NulLiteral), lx, TRUE)
  ELSE IF ch \in DOMAIN OperatorKind THEN LexResult(new_token(lx, OperatorKind[ch], ch), read_char(src, lx), TRUE)
  ELSE IF ch = "#" THEN CommentToken(read_comment(src, lx))
  ELSE IF ch = "{" THEN JsonToken(src, read_string(src, lx, "}"))
  ELSE IF ch \in DOMAIN Delimited THEN DelimitedToken(src, Delimited[ch], read_string(src, lx, ch))
  ELSE IF is_ascii_digit(ch) \/ (ch = "." /\ peek_char(src, lx).some /\ is_ascii_digit(peek_char(src, lx).val)) THEN NumberToken(read_number(src, lx))
  ELSE IF is_alphabetic(ch) THEN IdentifierToken(read_identifier(src, lx))
  ELSE LexResult(new_token(lx, "Illegal", ch), read_char(src, lx), TRUE)

CurrentChar(lx) == IF lx.current_char.some THEN lx.current_char.val ELSE ""

AfterWhitespace(src, lx) == ScanToken(src, lx, CurrentChar(lx))

\* Lexer::next_token: the token, the lexer after it, and ok = FALSE when it panics
next_token(src, lx0) == AfterWhitespace(src, skip_whitespace(src, lx0))

(***************************************************************************)
(* Text-to-value conversions of the standard library, as the parser uses   *)
(* them.  A decimal value is the exact fraction num / den (den a power of  *)
(* ten); a Duration is a whole number of milliseconds.                     *)
(***************************************************************************)
DigitVal == [c \in Digits |-> CASE c = "0" -> 0 [] c = "1" -> 1 [] c = "2" -> 2 [] c = "3" -> 3 [] c = "4" -> 4 [] c = "5" -> 5 [] c = "6" -> 6 [] c = "7" -> 7 [] c = "8" -> 8 [] c = "9" -> 9]

CharSet(s) == {CharAt(s, i) : i \in 1..Len(s)}

CountChar(s, c) == Cardinality({i \in 1..Len(s) : CharAt(s, i) = c})

RECURSIVE IntOf(_)
\* the value of a string of decimal digits
IntOf(s) == IF Len(s) = 0 THEN 0 ELSE IntOf(SubSeq(s, 1, Len(s) - 1)) * 10 + DigitVal[CharAt(s, Len(s))]

RECURSIVE Pow10(_)
Pow10(n) == IF n = 0 THEN 1 ELSE 10 * Pow10(n - 1)

IsDecimal(s) == CharSet(s) \subseteq Digits \cup {"."} /\ CountChar(s, ".") <= 1 /\ CharSet(s) \cap Digits # {}

DotAt(s) == IF CountChar(s, ".") = 0 THEN Len(s) + 1 ELSE CHOOSE i \in 1..Len(s) : CharAt(s, i) = "."

DecimalOf(s) == [num |-> IntOf(SubSeq(s, 1, DotAt(s) - 1) \o SubSeq(s, DotAt(s) + 1, Len(s))), den |-> Pow10(IF DotAt(s) > Len(s) THEN 0 ELSE Len(s) - DotAt(s))]

\* str::parse::<f64>(): Ok(value) or Err(message); decimal literals only
ParseF64(s) == IF IsDecimal(s) THEN [ok |-> TRUE, val |-> DecimalOf(s)] ELSE [ok |-> FALSE, msg |-> IF s = "" THEN "cannot parse float from empty string" ELSE "invalid float literal"]

\* the spellings other than decimal literals that str::parse::<f32>() accepts
FloatWords == {"inf", "infinity", "nan", "NaN", "Inf"}

\* str::parse::<f32>()
ParseF32(s) == IF s \in FloatWords THEN [ok |-> TRUE, val |-> s] ELSE ParseF64(s)

\* the longest digit string that certainly fits u32 (u32::MAX has 10 digits)
U32Digits == 9

\* str::parse::<u32>()
ParseU32(s) == IF s = "" THEN [ok |-> FALSE, msg |-> "cannot parse integer from empty string"] ELSE IF ~(CharSet(s) \subseteq Digits) THEN [ok |-> FALSE, msg |-> "invalid digit found in string"] ELSE IF Len(s) > U32Digits THEN [ok |-> FALSE, msg |-> "number too large to fit in target type"] ELSE [ok |-> TRUE, val |-> IntOf(s)]

\* x as u64, of a non-negative f64: truncation toward zero
as_u64(x) == x.num \div x.den

\* (x * 60.0) as u64
times60_as_u64(x) == (x.num * 60) \div x.den

MillisPerSec == 1000

from_millis(n) == n

from_secs(n) == n * MillisPerSec

\* Duration::default()
ZeroDuration == 0

(***************************************************************************)
(* Parser (src/src/parser.rs).  Inside a step the parser is the record     *)
(*   [lexer, current_token, peek_token, errors, ntokens, panic]            *)
(* ntokens counts the tokens pulled from the lexer; panic is "none" until  *)
(* the program panics, and a panicked parser does nothing more.            *)
(* A sub-parser gives [p, res]: the parser after it and Ok(command) or     *)
(* Err(message).                                                           *)
(***************************************************************************)
Ok(v) == [ok |-> TRUE, val |-> v]

Err(msg) == [ok |-> FALSE, msg |-> msg]

ParseError(token, message) == [token |-> token, message |-> message]

Panicked(p, cause) == IF p.panic # "none" THEN p ELSE [p EXCEPT !.panic = cause]

\* Pulled with the new token put in current_token as well: the token in peek is lost
PulledOver(p, r) == IF ~r.ok THEN Panicked(p, "lexer") ELSE [p EXCEPT !.current_token = r.tok, !.peek_token = r.tok, !.lexer = r.lx, !.ntokens = @ + 1]

\* the lookahead window after the lexer gave r
Pulled(p, r) == IF ~r.ok THEN Panicked(p, "lexer") ELSE [p EXCEPT !.current_token = p.peek_token, !.peek_token = r.tok, !.lexer = r.lx, !.ntokens = @ + 1]

\* Parser::next_token: shift peek into current and pull a token from the lexer
parser_next_token(src, p) == IF p.panic # "none" THEN p ELSE Pulled(p, next_token(src, p.lexer))

PushError(p, token, message) == [p EXCEPT !.errors = Append(@, ParseError(token, message))]

\* Parser::new: both lookahead slots primed by two next_token calls
ParserNew(src, lx) == parser_next_token(src, parser_next_token(src, [lexer |-> lx, current_token |-> DefaultToken, peek_token |-> DefaultToken, errors |-> <<>>, ntokens |-> 0, panic |-> "none"]))

Returned(p, res) == [p |-> p, res |-> res]

Timed(p, dur) == [p |-> p, dur |-> dur]

TimeUnits == {"Milliseconds", "Seconds", "Minutes"}

\* ScaleTime with the Minutes arm taken as seconds
ScaleTimeInSeconds(t, unit) == CASE unit = "Milliseconds" -> from_millis(as_u64(t)) [] unit = "Seconds" -> from_secs(as_u64(t)) [] unit = "Minutes" -> from_secs(as_u64(t))

\* the Duration of a parsed number under a unit token kind
ScaleTime(t, unit) == CASE unit = "Milliseconds" -> from_millis(as_u64(t)) [] unit = "Seconds" -> from_secs(as_u64(t)) [] unit = "Minutes" -> from_secs(times60_as_u64(t))

\* parse_time once the Number is consumed: the unwrap of the parsed text, then the unit
TimeValue(src, p1, t) == IF ~t.ok THEN Timed(Panicked(p1, "unwrap"), ZeroDuration) ELSE IF p1.peek_token.token_type \in TimeUnits THEN Timed(parser_next_token(src, p1), ScaleTime(t.val, p1.peek_token.token_type)) ELSE Timed(p1, from_secs(as_u64(t.val)))

\* parse_time with the token after the @ consumed when it is not a Number
parse_time_skipping(src, p) == IF p.peek_token.token_type = "Number" THEN TimeValue(src, parser_next_token(src, p), ParseF64(p.peek_token.literal)) ELSE Timed(parser_next_token(src, PushError(p, p.current_token, "Expected time after " \o p.current_token.literal)), ZeroDuration)

\* Parser::parse_time: [p, dur]
parse_time(src, p) == IF p.peek_token.token_type = "Number" THEN TimeValue(src, parser_next_token(src, p), ParseF64(p.peek_token.literal)) ELSE Timed(PushError(p, p.current_token, "Expected time after " \o p.current_token.literal), ZeroDuration)

\* Parser::parse_speed: [p, dur]
parse_speed(src, p) == IF p.peek_token.token_type = "At" THEN parse_time(src, parser_next_token(src, p)) ELSE Timed(p, ZeroDuration)

\* the Option<Duration> a sub-parser makes of a duration: None for Duration::default()
RateOf(dur) == IF dur # ZeroDuration THEN Some(dur) ELSE None

\* unwrap_or(1) of the parsed repeat count
RepeatCount(n) == IF n.ok THEN n.val ELSE 1

\* Parser::parse_repeat: [p, count]
parse_repeat(src, p) == IF p.peek_token.token_type = "Number" THEN [p |-> parser_next_token(src, p), count |-> RepeatCount(ParseU32(p.peek_token.literal))] ELSE [p |-> p, count |-> 1]

KeyMake(rp, dur, command_type) == Returned(rp.p, Ok([variant |-> "Key", key |-> command_type, rate |-> RateOf(dur), repeat_count |-> rp.count]))

KeyRepeat(src, sp, command_type) == KeyMake(parse_repeat(src, sp.p), sp.dur, command_type)

\* Parser::parse_keypress
parse_keypress(src, p, command_type) == KeyRepeat(src, parse_speed(src, p), command_type)

SleepMake(t) == Returned(t.p, Ok([variant |-> "Sleep", duration |-> RateOf(t.dur)]))

\* Parser::parse_sleep
parse_sleep(src, p) == SleepMake(IF p.peek_token.token_type = "Number" THEN parse_time(src, p) ELSE Timed(p, ZeroDuration))

RECURSIVE TypeLoop(_, _, _)
\* the body of the while loop of parse_type: the text is overwritten
TypeBody(src, p1) == TypeLoop(src, p1, p1.current_token.literal)

\* the while loop of parse_type: [p, text]
TypeLoop(src, p, text) == IF p.panic = "none" /\ p.peek_token.token_type = "String" THEN TypeBody(src, parser_next_token(src, p)) ELSE [p |-> p, text |-> text]

TypeMake(l, dur) == Returned(l.p, Ok([variant |-> "Type", rate |-> RateOf(dur), text |-> l.text]))

TypeStrings(src, sp) == IF sp.p.peek_token.token_type # "String" THEN Returned(sp.p, Err(sp.p.current_token.literal \o " expects string")) ELSE TypeMake(TypeLoop(src, sp.p, ""), sp.dur)

\* Parser::parse_type
parse_type(src, p) == TypeStrings(src, parse_speed(src, p))

RECURSIVE CopyLoop(_, _, _)
\* the body of the while loop of parse_copy: push_str
CopyBody(src, p1, text) == CopyLoop(src, p1, text \o p1.current_token.literal)

\* the while loop of parse_copy: [p, text]
CopyLoop(src, p, text) == IF p.panic = "none" /\ p.peek_token.token_type = "String" THEN CopyBody(src, parser_next_token(src, p), text) ELSE [p |-> p, text |-> text]

CopyMake(l) == Returned(l.p, Ok([variant |-> "Copy", text |-> l.text]))

\* Parser::parse_copy
parse_copy(src, p) == IF p.peek_token.token_type # "String" THEN Returned(p, Err(p.current_token.literal \o " expects string")) ELSE CopyMake(CopyLoop(src, p, ""))

\* Parser::parse_require
parse_require(src, p) == IF p.peek_token.token_type # "String" THEN Returned(p, Err(p.current_token.literal \o " expects one string")) ELSE Returned(parser_next_token(src, p), Ok([variant |-> "Require", program |-> p.peek_token.literal]))

\* parse_env once the variable name is consumed
EnvValue(src, p1, variable) == IF p1.peek_token.token_type # "String" THEN Returned(p1, Err(p1.current_token.literal \o " expects string")) ELSE Returned(parser_next_token(src, p1), Ok([variant |-> "Env", variable |-> variable, value |-> p1.peek_token.literal]))

\* Parser::parse_env
parse_env(src, p) == EnvValue(src, parser_next_token(src, p), p.peek_token.literal)

(***************************************************************************)
(* Library calls on the literal of a token: std::path::Path and            *)
(* regex::Regex::new.                                                      *)
(***************************************************************************)
ends_with(s, c) == Len(s) > 0 /\ CharAt(s, Len(s)) = c

RECURSIVE StripTrailingSlashes(_)
StripTrailingSlashes(s) == IF Len(s) > 1 /\ ends_with(s, "/") THEN StripTrailingSlashes(SubSeq(s, 1, Len(s) - 1)) ELSE s

LastIndexOf(s, c) == IF CountChar(s, c) = 0 THEN 0 ELSE CHOOSE i \in 1..Len(s) : CharAt(s, i) = c /\ \A j \in (i + 1)..Len(s) : CharAt(s, j) # c

LastComponent(t) == SubSeq(t, LastIndexOf(t, "/") + 1, Len(t))

NamedFile(name) == IF name \in {"", ".", ".."} THEN None ELSE Some(name)

\* Path::file_name: the last component, None for the empty path, the root, "." and ".."
file_name(path) == NamedFile(LastComponent(StripTrailingSlashes(path)))

AfterLastDot(f) == IF ~f.some \/ LastIndexOf(f.val, ".") <= 1 THEN None ELSE Some(SubSeq(f.val, LastIndexOf(f.val, ".") + 1, Len(f.val)))

\* Path::extension: the part of the file name after its last dot, None when there is
\* no dot or the only dot is the first character
extension(path) == AfterLastDot(file_name(path))

RECURSIVE ParenDepthOk(_, _)
\* the parentheses of a pattern are balanced
ParenDepthOk(s, depth) == IF Len(s) = 0 THEN depth = 0 ELSE IF CharAt(s, 1) = "(" THEN ParenDepthOk(SubSeq(s, 2, Len(s)), depth + 1) ELSE IF CharAt(s, 1) = ")" THEN depth > 0 /\ ParenDepthOk(SubSeq(s, 2, Len(s)), depth - 1) ELSE ParenDepthOk(SubSeq(s, 2, Len(s)), depth)

\* Regex::new(pattern).is_ok(), for patterns of literal characters, parentheses and
\* repetition operators: a group must be closed and a repetition must follow something
RegexNew(pattern) == ParenDepthOk(pattern, 0) /\ (Len(pattern) = 0 \/ CharAt(pattern, 1) \notin {"*", "+", "?"})

\* str::len of a literal: its length in bytes
str_len(s) == ByteOffset(s, Len(s))

(***************************************************************************)
(* Sub-parsers with paths, key combinations and patterns                   *)
(***************************************************************************)
\* Parser::parse_output
parse_output(src, p) == IF p.peek_token.token_type # "String" THEN Returned(p, Err("Expected file path after output")) ELSE IF ~extension(p.peek_token.literal).some /\ ~ends_with(p.peek_token.literal, "/") THEN Returned(p, Err("Expected folder with trailing slash")) ELSE Returned(parser_next_token(src, p), Ok([variant |-> "Output", path |-> p.peek_token.literal, format |-> IF extension(p.peek_token.literal).some THEN "." \o extension(p.peek_token.literal).val ELSE ".png"]))

\* what parse_screenshot returns; it advances on every path
ScreenshotResult(p) == IF p.peek_token.token_type # "String" THEN Err("Expected path after Screenshot") ELSE IF extension(p.peek_token.literal) # Some("png") THEN Err("Expected file with .png extension") ELSE Ok([variant |-> "Screenshot", path |-> p.peek_token.literal])

\* Parser::parse_screenshot
parse_screenshot(src, p) == Returned(parser_next_token(src, p), ScreenshotResult(p))

\* the token kinds parse_ctrl accepts as a key besides a one-byte String
CtrlKeys == {"Enter", "Space", "Backspace", "Delete", "Insert", "Tab", "Escape", "Minus", "At", "LeftBracket", "RightBracket", "Caret", "Backslash"}

RECURSIVE CtrlLoop(_, _, _, _)
\* CtrlKey without the test of in_modifier_chain: a modifier is taken wherever it stands
CtrlKeyAnyOrder(src, p1, keys, in_modifier_chain) ==
  IF p1.peek_token.literal \in DOMAIN KEYWORDS /\ is_modifier(KEYWORDS[p1.peek_token.literal])
  THEN CtrlLoop(src, parser_next_token(src, p1), Append(keys, p1.peek_token.literal), in_modifier_chain)
  ELSE IF p1.peek_token.token_type \in CtrlKeys \/ (p1.peek_token.token_type = "String" /\ str_len(p1.peek_token.literal) = 1)
       THEN CtrlLoop(src, parser_next_token(src, p1), Append(keys, p1.peek_token.literal), FALSE)
       ELSE Returned(p1, Err("Invalid Ctrl key: " \o p1.peek_token.literal))

\* the body of the while loop of parse_ctrl once the '+' is consumed
CtrlKey(src, p1, keys, in_modifier_chain) ==
  IF p1.peek_token.literal \in DOMAIN KEYWORDS /\ is_modifier(KEYWORDS[p1.peek_token.literal])
  THEN IF ~in_modifier_chain THEN Returned(p1, Err("Modifiers must come before other keys"))
       ELSE CtrlLoop(src, parser_next_token(src, p1), Append(keys, p1.peek_token.literal), in_modifier_chain)
  ELSE IF p1.peek_token.token_type \in CtrlKeys \/ (p1.peek_token.token_type = "String" /\ str_len(p1.peek_token.literal) = 1)
       THEN CtrlLoop(src, parser_next_token(src, p1), Append(keys, p1.peek_token.literal), FALSE)
       ELSE Returned(p1, Err("Invalid Ctrl key: " \o p1.peek_token.literal))

\* the while loop of parse_ctrl: [p, res], res the keys or the error
CtrlLoop(src, p, keys, in_modifier_chain) == IF p.panic # "none" \/ p.peek_token.token_type # "Plus" THEN Returned(p, Ok(keys)) ELSE CtrlKey(src, parser_next_token(src, p), keys, in_modifier_chain)

\* CtrlMake without the test of keys.is_empty()
CtrlMakeUnchecked(l, dur) == IF ~l.res.ok THEN l ELSE Returned(l.p, Ok([variant |-> "Ctrl", keys |-> l.res.val, rate |-> RateOf(dur)]))

CtrlMake(l, dur) == IF ~l.res.ok THEN l ELSE IF l.res.val = <<>> THEN Returned(l.p, Err("Expected at least one key after Ctrl")) ELSE Returned(l.p, Ok([variant |-> "Ctrl", keys |-> l.res.val, rate |-> RateOf(dur)]))

CtrlKeysOf(src, sp) == CtrlMake(CtrlLoop(src, sp.p, <<>>, TRUE), sp.dur)

\* Parser::parse_ctrl
parse_ctrl(src, p) == CtrlKeysOf(src, parse_speed(src, p))

\* the token kinds parse_alt and parse_shift accept as the key
AltKeys == {"String", "Enter", "LeftBracket", "RightBracket", "Tab"}

\* parse_alt and parse_shift once the '+' is consumed; From<CtrlCommand> turns the
\* CtrlCommand both return into Commands::Ctrl
ModifierKey(src, p1, dur, name) == IF p1.peek_token.token_type \notin AltKeys THEN Returned(p1, Err("Invalid " \o name \o " key: " \o p1.peek_token.literal)) ELSE Returned(parser_next_token(src, p1), Ok([variant |-> "Ctrl", keys |-> <<p1.peek_token.literal>>, rate |-> RateOf(dur)]))

\* the body parse_alt and parse_shift share word for word, after parse_speed
ModifierPlus(src, sp, name) == IF sp.p.peek_token.token_type # "Plus" THEN Returned(sp.p, Err("Expected '+' after " \o name \o ", got " \o sp.p.peek_token.literal)) ELSE ModifierKey(src, parser_next_token(src, sp.p), sp.dur, name)

\* Parser::parse_alt
parse_alt(src, p) == ModifierPlus(src, parse_speed(src, p), "Alt")

\* Parser::parse_shift
parse_shift(src, p) == ModifierPlus(src, parse_speed(src, p), "Shift")

\* WaitModeName without the test of the literal: any String names a mode
WaitModeAnyName(src, p1) == IF p1.peek_token.token_type # "String" THEN Returned(p1, Err("Wait+ expects Line or Screen")) ELSE Returned(parser_next_token(src, p1), Ok(p1.peek_token.literal))

\* parse_wait once the '+' is consumed
WaitModeName(src, p1) == IF p1.peek_token.token_type # "String" \/ p1.peek_token.literal \notin {"Line", "Screen"} THEN Returned(p1, Err("Wait+ expects Line or Screen")) ELSE Returned(parser_next_token(src, p1), Ok(p1.peek_token.literal))

\* the mode group of parse_wait: [p, res], res the mode or the error
WaitModeOf(src, p) == IF p.peek_token.token_type # "Plus" THEN Returned(p, Ok("Line")) ELSE WaitModeName(src, parser_next_token(src, p))

WaitMake(mode, dur, pattern) == [variant |-> "Wait", mode |-> mode, timeout |-> RateOf(dur), pattern |-> pattern]

\* parse_wait once the Regex token is consumed
WaitCompile(p2, mode, dur) == IF ~RegexNew(p2.current_token.literal) THEN Returned(p2, Err("Invalid regular expression '" \o p2.current_token.literal \o "': invalid regex")) ELSE Returned(p2, Ok(WaitMake(mode, dur, Some(p2.current_token.literal))))

\* parse_wait after parse_speed
WaitRegex(src, sp, mode) == IF sp.p.peek_token.token_type # "Regex" THEN Returned(sp.p, Ok(WaitMake(mode, sp.dur, None))) ELSE WaitCompile(parser_next_token(src, sp.p), mode, sp.dur)

\* parse_wait after the mode group
WaitSpeed(src, m) == IF ~m.res.ok THEN m ELSE WaitRegex(src, parse_speed(src, m.p), m.res.val)

\* Parser::parse_wait
parse_wait(src, p) == WaitSpeed(src, WaitModeOf(src, p))

(***************************************************************************)
(* Parser::parse_set, one value grammar per group of settings              *)
(***************************************************************************)
U32Settings == {"FontSize", "Width", "Height", "Padding", "Framerate", "Margin", "BorderRadius", "WindowBarSize"}

F32Settings == {"LetterSpacing", "LineHeight", "PlaybackSpeed"}

TextSettings == {"FontFamily", "Theme", "MarginFill", "WindowBar"}

SetOk(p, name, value) == Returned(p, Ok([variant |-> "Set", setting |-> [name |-> name, value |-> value]]))

\* a setting whose value is the parsed literal of the next token
SetParsed(src, p, name, v) == IF ~v.ok THEN Returned(p, Err(v.msg)) ELSE SetOk(parser_next_token(src, p), name, v.val)

\* FontSize, Width, Height, Padding, Framerate, Margin, BorderRadius, WindowBarSize
SetU32(src, p, name) == SetParsed(src, p, name, ParseU32(p.peek_token.literal))

\* LetterSpacing, LineHeight, PlaybackSpeed
SetF32(src, p, name) == SetParsed(src, p, name, ParseF32(p.peek_token.literal))

\* FontFamily, Theme, MarginFill, WindowBar
SetText(src, p, name) == SetOk(parser_next_token(src, p), name, p.peek_token.literal)

SetShell(src, p) == IF p.peek_token.token_type \notin {"String", "Json"} THEN Returned(p, Err("Set Shell expects string or JSON, got " \o p.peek_token.literal)) ELSE SetOk(parser_next_token(src, p), "Shell", p.peek_token.literal)

LoopOffsetValue(p2, v) == IF ~v.ok THEN Returned(p2, Err(v.msg)) ELSE SetOk(p2, "LoopOffset", v.val)

LoopOffsetPercent(src, p1, lit) == LoopOffsetValue(IF p1.peek_token.token_type = "Percent" THEN parser_next_token(src, p1) ELSE p1, ParseF32(IF ends_with(lit, "%") THEN SubSeq(lit, 1, Len(lit) - 1) ELSE lit))

SetLoopOffset(src, p) == LoopOffsetPercent(src, parser_next_token(src, p), p.peek_token.literal)

DurationUnit(src, p1, name, units, val) == IF p1.peek_token.token_type \in units THEN SetOk(parser_next_token(src, p1), name, ScaleTime(val, p1.peek_token.token_type)) ELSE SetOk(p1, name, from_secs(as_u64(val)))

DurationValue(src, p, name, units, v) == IF ~v.ok THEN Returned(p, Err(v.msg)) ELSE DurationUnit(src, parser_next_token(src, p), name, units, v.val)

\* TypingSpeed (units ms, s) and WaitTimeout (units ms, s, m)
SetDuration(src, p, name, units) == IF p.peek_token.token_type # "Number" THEN Returned(p, Err("Set " \o name \o " expects a number, got " \o p.peek_token.literal)) ELSE DurationValue(src, p, name, units, ParseF64(p.peek_token.literal))

SetWaitPattern(src, p) == IF ~RegexNew(p.peek_token.literal) THEN Returned(p, Err("Invalid regexp pattern: " \o p.peek_token.literal)) ELSE SetOk(parser_next_token(src, p), "WaitPattern", p.peek_token.literal)

SetCursorBlink(src, p) == IF p.peek_token.literal \notin {"true", "false"} THEN Returned(p, Err("Set CursorBlink expects true/false, got " \o p.peek_token.literal)) ELSE SetOk(parser_next_token(src, p), "CursorBlink", p.peek_token.literal = "true")

\* parse_set once the setting name is consumed: the match on setting_type
SetValue(src, p1, setting_type) ==
  IF setting_type = "Shell" THEN SetShell(src, p1)
  ELSE IF setting_type \in U32Settings THEN SetU32(src, p1, setting_type)
  ELSE IF setting_type \in F32Settings THEN SetF32(src, p1, setting_type)
  ELSE IF setting_type \in TextSettings THEN SetText(src, p1, setting_type)
  ELSE IF setting_type = "LoopOffset" THEN SetLoopOffset(src, p1)
  ELSE IF setting_type = "TypingSpeed" THEN SetDuration(src, p1, setting_type, {"Milliseconds", "Seconds"})
  ELSE IF setting_type = "WaitTimeout" THEN SetDuration(src, p1, setting_type, TimeUnits)
  ELSE IF setting_type = "WaitPattern" THEN SetWaitPattern(src, p1)
  ELSE SetCursorBlink(src, p1)

\* parse_set with the token after Set consumed before the unknown setting is reported
parse_set_consuming(src, p) == IF ~is_setting(p.peek_token.token_type) THEN Returned(parser_next_token(src, p), Err("Unknown setting: " \o p.peek_token.literal)) ELSE SetValue(src, parser_next_token(src, p), p.peek_token.token_type)

\* Parser::parse_set
parse_set(src, p) == IF ~is_setting(p.peek_token.token_type) THEN Returned(p, Err("Unknown setting: " \o p.peek_token.literal)) ELSE SetValue(src, parser_next_token(src, p), p.peek_token.token_type)

(***************************************************************************)
(* Parser::get_current_command: the kinds of current_token it has arms for *)
(***************************************************************************)
KeyCommands == {"Space", "Backspace", "Delete", "Insert", "Enter", "Escape", "Tab", "Down", "Left", "Right", "Up", "PageUp", "PageDown"}

(***************************************************************************)
(* Sources: one statement, then nothing, a newline, or up to MaxFollow     *)
(* further lines.                                                          *)
(***************************************************************************)
\* most String tokens after Type or Copy
MaxStrings == 2

\* most +<key> groups after Ctrl
MaxKeys == 2

\* most lines after the first statement
MaxFollow == 1

NumberTexts == {"0", "1", "2", "42", "500", "0.5", "1.5", ".5", "2.", "1.2.3"}

UnitTexts == {"", "ms", "s", "m"}

TimeTexts == {n \o u : n \in NumberTexts, u \in UnitTexts}

SpeedTexts == {"", "@", "@0", "@1", "@50ms", "@2s", "@1m", "@ 3", "@0.5s", "@1.2.3", "@1 s", "@$"}

KeyNames == {"Space", "Backspace", "Delete", "Insert", "Enter", "Escape", "Tab", "Down", "Left", "Right", "Up", "PageUp", "PageDown"}

StringTexts == {" \"hi\"", " 'a b'", " x"}

RECURSIVE Repeated(_, _)
\* the concatenations of 1..n members of a set of texts
Repeated(S, n) == IF n = 0 THEN {} ELSE S \cup {a \o b : a \in Repeated(S, n - 1), b \in S}

StringArgs == {""} \cup Repeated(StringTexts, MaxStrings) \cup {" 5", " \"hi", " \"$\"", " \"", " $"}

SleepLines == {"Sleep"} \cup {"Sleep " \o t : t \in TimeTexts} \cup {"Sleep 1 s", "Sleep x", "Sleep 5 \""}

KeyLines == {k \o sp \o r : k \in KeyNames, sp \in {"", "@", "@0", "@1", "@50ms"}, r \in {"", " 3"}} \cup {"Enter@" \o t \o r : t \in TimeTexts, r \in {"", " 2", " 0"}} \cup {"Up 2.5", "Down 1.2.3", "Tab x", "Up 0", "Enter 0", "Enter 42"}

TypeLines == {"Type" \o sp \o a : sp \in SpeedTexts, a \in StringArgs}

CopyLines == {"Copy" \o a : a \in StringArgs}

PathArgs == {"", " foo.gif", " out/", " out.d/", " foo", " \"a.mp4\"", " shot.png", " dir/shot.png", " .png", " 5", " $.png"}

OutputLines == {"Output" \o a : a \in PathArgs}

ScreenshotLines == {"Screenshot" \o a : a \in PathArgs}

RequireLines == {"Require" \o a : a \in {"", " git", " \"my prog\"", " 5", " Sleep"}}

EnvLines == {"Env" \o a : a \in {"", " FOO", " FOO \"bar\"", " FOO bar", " FOO 5", " 5 x", " \"A\" \"b\"", " # c\n\"x\""}}

KeyGroups == {"+Shift", "+C", "+Enter", "+ab", "+"}

CtrlLines == {"Ctrl" \o sp \o g : sp \in {"", "@1", "@"}, g \in {""} \cup Repeated(KeyGroups, MaxKeys)} \cup {"Ctrl+Alt+Shift+C", "Ctrl+Alt+C", "Ctrl+C+Alt", "Ctrl + C", "Ctrl+@", "Ctrl+$", "Ctrl+Shift+@"}

ModifierLines == {k \o sp \o g : k \in {"Alt", "Shift"}, sp \in {"", "@1", "@0", "@"}, g \in {"", "+", "+Tab", "+a", "+[", "+]", "+Enter", "+5", "+Space", "+a+b"}}

WaitLines == {"Wait" \o m \o sp \o r : m \in {"", "+Line", "+Screen", "+Banana", "+", "+\"Line\"", "+5"}, sp \in {"", "@5s", "@0", "@"}, r \in {"", " /ready/", " /(/", " /a", " /*/", " x"}}

SettingNames == {"Shell", "FontFamily", "FontSize", "LetterSpacing", "LineHeight", "Framerate", "TypingSpeed", "Theme", "PlaybackSpeed", "Height", "Width", "Padding", "LoopOffset", "MarginFill", "Margin", "WindowBar", "WindowBarSize", "BorderRadius", "CursorBlink", "WaitTimeout", "WaitPattern"}

ValueTexts == {"", " 42", " 4", " 0.5", " 1.2.3", " \"x\"", " true", " false", " \"true\"", " 50ms", " 1m", " 2s", " 25%", " 25 %", " {a}", " abc", " nan", " (", " # c", " 42 7"}

SetLines == {"Set " \o n \o v : n \in SettingNames, v \in ValueTexts} \cup {"Set", "Set 5", "Set Foo 1", "Set Sleep"}

OtherLines == {"Hide", "Show", "Paste", "Source", "Home", "End", "foo", "5", "@", "!", "$", "ms", "FontSize 4", "# note", "#", "# $", "##", "{", "{a", "{a}", "\"", "'", Backtick \o "a", Backtick \o "a b" \o Backtick, "/", "/ab", "", " ", "\t", "=", ".5", ".", "Hide # c", "Paste Show"}

\* the names of the token model: time units, keys and movements, commands, settings
UnitNames == {"em", "px", "ms", "s", "m"}

MovementNames == {"Enter", "Space", "Backspace", "Delete", "Insert", "Tab", "Escape", "Home", "End", "Up", "Down", "Left", "Right", "PageUp", "PageDown", "Ctrl", "Alt", "Shift"}

CommandNames == {"Set", "Sleep", "Type", "Output", "Require", "Show", "Hide", "Source", "Screenshot", "Copy", "Paste", "Env", "Wait"}

\* identifiers that are no name of the token model
PlainWords == {"foo", "Banana", "sleep", "ENTER", "True", "Line", "Screen", "Homes", "sec", "a.b", "x_y", "a-b"}

IdentifierTexts == UnitNames \cup MovementNames \cup CommandNames \cup SettingNames \cup {"true", "false"} \cup PlainWords

Statements == IdentifierTexts \cup SleepLines \cup KeyLines \cup TypeLines \cup CopyLines \cup OutputLines \cup ScreenshotLines \cup RequireLines \cup EnvLines \cup CtrlLines \cup ModifierLines \cup WaitLines \cup SetLines \cup OtherLines

FollowLines == {"Sleep 1\n", "Hide\n"}

RECURSIVE Follows(_)
\* up to n follow lines
Follows(n) == IF n = 0 THEN {""} ELSE {""} \cup {a \o b : a \in Follows(n - 1), b \in FollowLines}

Tails == {""} \cup {"\n" \o f : f \in Follows(MaxFollow)} \cup {"\r\nHide\n", "\n# c\nHide\n"}

Sources == {h \o t : h \in Statements, t \in Tails}

(***************************************************************************)
(* The state machine: Lexer::new, Parser::new, then the loop of            *)
(* Parser::parse, one iteration a step.                                    *)
(***************************************************************************)
\* the parser record of the current state
Parser == [lexer |-> lexer, current_token |-> current_token, peek_token |-> peek_token, errors |-> errors, ntokens |-> ntokens, panic |-> panic]

\* the program stops in a panic
Abort(cause) == pc' = "panicked" /\ panic' = cause /\ UNCHANGED <<input, lexer, current_token, peek_token, errors, commands, ret, ntokens>> /\ UNCHANGED burn_vars

\* the parser fields after a step
Store(p) == lexer' = p.lexer /\ current_token' = p.current_token /\ peek_token' = p.peek_token /\ errors' = p.errors /\ ntokens' = p.ntokens

(***************************************************************************)
(* burn (src/src/burn.rs): the wakeup channel, the listeners handed to the *)
(* terminal and to its event loop, and the frame-capture loop.  The        *)
(* terminal library calls send_event on either listener at any time; the   *)
(* Receiver lives until burn returns, after the part modelled here.        *)
(***************************************************************************)
\* the Listener values: the clone given to Term::new and the one moved into
\* EventLoop::new. Listener derives Clone, so each holds a Sender of its own.
Listeners == {"term", "event_loop"}

\* the number of frames after which the capture loop breaks
FrameLimit == 10

\* the Wakeup events the terminal delivers at most
MaxWakeups == 11

\* burn when it reaches the capture loop: both listeners hold a Sender, nothing was sent
BurnStart == /\ mister = [l \in Listeners |-> TRUE]
             /\ exited = [l \in Listeners |-> FALSE]
             /\ channel = 0
             /\ wakeups = 0
             /\ count = 0
             /\ frames = 0
             /\ at = "recv"

\* Listener::send_event(Event::Wakeup) on the listener l: a message is sent if it holds a Sender
Wakeup(l) == /\ wakeups < MaxWakeups
             /\ wakeups' = wakeups + 1
             /\ channel' = (IF mister[l] THEN channel + 1 ELSE channel)
             /\ UNCHANGED <<mister, exited, count, frames, at>>
             /\ UNCHANGED parse_vars

\* Listener::send_event(Event::Exit) on the listener l: its Sender is dropped
Exit(l) == /\ ~exited[l]
           /\ mister' = [mister EXCEPT ![l] = FALSE]
           /\ exited' = [exited EXCEPT ![l] = TRUE]
           /\ UNCHANGED <<channel, wakeups, count, frames, at>>
           /\ UNCHANGED parse_vars

\* one iteration of the capture loop: recv() returns Ok(()), a frame is appended and
\* counted; at FrameLimit the loop breaks and the final frame is appended
Capture == /\ at = "recv"
           /\ channel > 0
           /\ channel' = channel - 1
           /\ count' = count + 1
           /\ frames' = (IF count + 1 = FrameLimit THEN frames + 2 ELSE frames + 1)
           /\ at' = (IF count + 1 = FrameLimit THEN "render" ELSE "recv")
           /\ UNCHANGED <<mister, exited, wakeups>>
           /\ UNCHANGED parse_vars

\* recv() returns Err: the channel is empty and no Sender is left; the loop ends and the
\* final frame is appended
Disconnected == /\ at = "recv"
                /\ channel = 0
                /\ \A l \in Listeners : ~mister[l]
                /\ frames' = frames + 1
                /\ at' = "render"
                /\ UNCHANGED <<mister, exited, channel, wakeups, count>>
                /\ UNCHANGED parse_vars

Init == /\ input \in Sources
        /\ lexer = LexerNew(input)
        /\ current_token = DefaultToken
        /\ peek_token = DefaultToken
        /\ errors = <<>>
        /\ commands = <<>>
        /\ ret = None
        /\ ntokens = 0
        /\ pc = "new"
        /\ panic = "none"
        /\ BurnStart

Constructed(p) == IF p.panic # "none" THEN Abort(p.panic) ELSE Store(p) /\ pc' = "parsing" /\ UNCHANGED <<input, commands, ret, panic>> /\ UNCHANGED burn_vars

\* Parser::new
New == pc = "new" /\ Constructed(ParserNew(input, lexer))

Skipped(p) == IF p.panic # "none" THEN Abort(p.panic) ELSE Store(p) /\ UNCHANGED <<input, commands, ret, pc, panic>> /\ UNCHANGED burn_vars

\* parse, a Comment at statement position: next_token and continue
SkipComment == pc = "parsing" /\ current_token.token_type = "Comment" /\ Skipped(parser_next_token(input, Parser))

\* Iterated with the command put in front of the list
IteratedInFront(res, p2) == IF p2.panic # "none" THEN Abort(p2.panic) ELSE Store(p2) /\ commands' = (IF res.ok THEN <<res.val>> \o commands ELSE commands) /\ ret' = Some(res) /\ UNCHANGED <<input, pc, panic>> /\ UNCHANGED burn_vars

\* the end of an iteration of the loop of parse, p2 the parser after its next_token
Iterated(res, p2) == IF p2.panic # "none" THEN Abort(p2.panic) ELSE Store(p2) /\ commands' = (IF res.ok THEN Append(commands, res.val) ELSE commands) /\ ret' = Some(res) /\ UNCHANGED <<input, pc, panic>> /\ UNCHANGED burn_vars

\* Matched without the push of the error
MatchedSilently(r) == Iterated(r.res, parser_next_token(input, r.p))

\* the match on the result r of get_current_command: the command is pushed, or the
\* error with the token that is current then; next_token follows in both cases
Matched(r) == Iterated(r.res, parser_next_token(input, IF r.res.ok THEN r.p ELSE PushError(r.p, r.p.current_token, r.res.msg)))

\* current_token is of one of the kinds, at statement position
At(kinds) == pc = "parsing" /\ current_token.token_type \in kinds

KeyPress == At(KeyCommands) /\ Matched(parse_keypress(input, Parser, current_token.token_type))

SetCommand == At({"Set"}) /\ Matched(parse_set(input, Parser))

OutputCommand == At({"Output"}) /\ Matched(parse_output(input, Parser))

SleepCommand == At({"Sleep"}) /\ Matched(parse_sleep(input, Parser))

TypeCommand == At({"Type"}) /\ Matched(parse_type(input, Parser))

CtrlCommand == At({"Ctrl"}) /\ Matched(parse_ctrl(input, Parser))

AltCommand == At({"Alt"}) /\ Matched(parse_alt(input, Parser))

ShiftCommand == At({"Shift"}) /\ Matched(parse_shift(input, Parser))

RequireCommand == At({"Require"}) /\ Matched(parse_require(input, Parser))

WaitCommand == At({"Wait"}) /\ Matched(parse_wait(input, Parser))

ScreenshotCommand == At({"Screenshot"}) /\ Matched(parse_screenshot(input, Parser))

CopyCommand == At({"Copy"}) /\ Matched(parse_copy(input, Parser))

EnvCommand == At({"Env"}) /\ Matched(parse_env(input, Parser))

\* Hide, Show and Paste: a command with no data and no sub-parser
UnitCommands == {"Hide", "Show", "Paste"}

UnitCommand == At(UnitCommands) /\ Matched(Returned(Parser, Ok([variant |-> current_token.token_type])))

\* every kind get_current_command has no arm for
NoCommandKinds == {"At", "Equal", "Plus", "Percent", "Backslash", "Minus", "RightBracket", "LeftBracket", "Caret", "Em", "Milliseconds", "Minutes", "Px", "Seconds", "Illegal", "End", "Number", "String", "Json", "Regex", "Boolean", "Source"} \cup SettingNames

InvalidCommand == At(NoCommandKinds) /\ Matched(Returned(Parser, Err("Invalid command: " \o current_token.literal)))

\* parse returns: current_token is Eof
Finish == /\ pc = "parsing"
          /\ current_token.token_type = "Eof"
          /\ pc' = "done"
          /\ UNCHANGED <<input, lexer, current_token, peek_token, errors, commands, ret, ntokens, panic>>
          /\ UNCHANGED burn_vars

Next == \/ New
        \/ SkipComment
        \/ KeyPress
        \/ SetCommand
        \/ OutputCommand
        \/ SleepCommand
        \/ TypeCommand
        \/ CtrlCommand
        \/ AltCommand
        \/ ShiftCommand
        \/ RequireCommand
        \/ WaitCommand
        \/ ScreenshotCommand
        \/ CopyCommand
        \/ EnvCommand
        \/ UnitCommand
        \/ InvalidCommand
        \/ Finish

Spec == Init /\ [][Next]_vars

\* burn at its capture loop, the script thread not yet started on its source
BurnInit == /\ input = ""
            /\ lexer = LexerNew(input)
            /\ current_token = DefaultToken
            /\ peek_token = DefaultToken
            /\ errors = <<>>
            /\ commands = <<>>
            /\ ret = None
            /\ ntokens = 0
            /\ pc = "new"
            /\ panic = "none"
            /\ BurnStart

BurnNext == \/ \E l \in Listeners : Wakeup(l)
            \/ \E l \in Listeners : Exit(l)
            \/ Capture
            \/ Disconnected

BurnSpec == BurnInit /\ [][BurnNext]_vars

TypeOK == pc \in {"new", "parsing", "done", "panicked"} /\ panic \in {"none", "lexer", "unwrap"} /\ (pc = "panicked") = (panic # "none")

(***************************************************************************)
(* Properties                                                              *)
(***************************************************************************)
\* the result of the last iteration is Ok
Produced == ret.some /\ ret.val.ok

\* the parse has stopped, by returning or by a panic
Stopped == pc \in {"done", "panicked"}

\* C1: a Number token in a time position whose text does not convert to a value is
\* reported as a ParseError and parsing continues: the conversion never panics.
C1_ConversionFailureReported == panic # "unwrap"

\* C2: parse terminates with current_token at Eof on every input: it never stops
\* while current_token is another token.
C2_ReachesEof == Stopped => current_token.token_type = "Eof"

\* C3: Lexer::next_token never fails: no call of it panics, whatever the input.
C3_NextTokenNeverFails == panic # "lexer"

\* lines that hold a command keyword with its required argument missing or invalid
BadLines == {"Type", "Type 5", "Copy", "Copy 5", "Output", "Output foo", "Output 5", "Screenshot", "Screenshot foo.gif", "Screenshot 5", "Require", "Require 5", "Env", "Env FOO", "Env FOO 5", "Set", "Set Foo 1", "Set 5", "Ctrl", "Ctrl+ab", "Ctrl+", "Alt", "Alt+5", "Shift", "Shift+5", "Wait+Banana", "Wait+", "Wait /(/"} \cup {"Set " \o n : n \in SettingNames} \cup {"Set " \o n \o " (" : n \in SettingNames \ TextSettings}

GoodSleep == [variant |-> "Sleep", duration |-> Some(1000)]

\* C4: error isolation: when a line with a missing or invalid argument is followed by
\* the well-formed line `Sleep 1', the Sleep command is in the returned command list.
C4_ErrorIsolation == pc = "done" => \A h \in BadLines : input = h \o "\nSleep 1\n" => \E i \in 1..Len(commands) : commands[i] = GoodSleep

Formed(line, variant) == [line |-> line, variant |-> variant]

\* one correctly formed line of each command grammar, with the variant of its keyword
WellFormed == {Formed(k \o a, "Key") : k \in KeyNames, a \in {"", "@50ms", " 3", "@1 3"}} \cup {Formed("Type" \o a, "Type") : a \in {" \"hi\"", "@50ms \"hi\"", " 'a b'", " x"}} \cup {Formed("Copy" \o a, "Copy") : a \in {" \"hi\"", " x"}} \cup {Formed("Sleep" \o a, "Sleep") : a \in {"", " 2s", " 500ms", " 1m", " 1"}} \cup {Formed("Output" \o a, "Output") : a \in {" foo.gif", " out/", " \"a.mp4\""}} \cup {Formed("Screenshot" \o a, "Screenshot") : a \in {" shot.png", " dir/shot.png"}} \cup {Formed("Require" \o a, "Require") : a \in {" git", " \"my prog\""}} \cup {Formed("Env" \o a, "Env") : a \in {" FOO \"bar\"", " FOO bar"}} \cup {Formed("Ctrl" \o a, "Ctrl") : a \in {"+C", "+Shift+C", "+Alt+Shift+C", "+Enter", "@1+C"}} \cup {Formed("Alt" \o a, "Alt") : a \in {"+Tab", "+a", "+[", "@1+Enter"}} \cup {Formed("Shift" \o a, "Shift") : a \in {"+Tab", "+a", "+]", "@1+Enter"}} \cup {Formed("Wait" \o a, "Wait") : a \in {"", "+Line", "+Screen", "@5s", " /ready/", "+Screen@5s /ready/"}} \cup {Formed("Set " \o n \o " 42", "Set") : n \in U32Settings} \cup {Formed("Set " \o n \o v, "Set") : n \in F32Settings, v \in {" 0.5", " 42"}} \cup {Formed("Set " \o n \o " \"x\"", "Set") : n \in TextSettings \cup {"Shell", "WaitPattern"}} \cup {Formed("Set " \o a, "Set") : a \in {"Shell {a}", "LoopOffset 25%", "LoopOffset 25 %", "LoopOffset 0.5", "TypingSpeed 50ms", "TypingSpeed 2s", "TypingSpeed 42", "WaitTimeout 50ms", "WaitTimeout 1m", "WaitTimeout 2s", "CursorBlink true", "CursorBlink false"}} \cup {Formed(k, k) : k \in UnitCommands}

\* C5: a source of one correctly formed line, ended by its newline, yields exactly one
\* command, of the variant of the line's keyword, and no error.
C5_RoundTrip == Stopped => \A w \in WellFormed : input = w.line \o "\n" => pc = "done" /\ Len(commands) = 1 /\ commands[1].variant = w.variant /\ errors = <<>>

\* C6: as the whole source, `Sleep 2s' yields one Sleep command of 2 s, `Set FontSize
\* 42' one Set command with FontSize(42), and `Ctrl+Shift+C' one Ctrl command with the
\* keys Shift, C; each with no error.
C6_Scenarios == Stopped => /\ input = "Sleep 2s" => pc = "done" /\ commands = <<[variant |-> "Sleep", duration |-> Some(2000)]>> /\ errors = <<>>
                           /\ input = "Set FontSize 42" => pc = "done" /\ commands = <<[variant |-> "Set", setting |-> [name |-> "FontSize", value |-> 42]]>> /\ errors = <<>>
                           /\ input = "Ctrl+Shift+C" => pc = "done" /\ commands = <<[variant |-> "Ctrl", keys |-> <<"Shift", "C">>, rate |-> None]>> /\ errors = <<>>

RECURSIVE StringRun(_, _)
\* the literals of the String tokens that follow in a row, from peek_token on
StringRun(src, p) == IF p.panic = "none" /\ p.peek_token.token_type = "String" THEN <<p.peek_token.literal>> \o StringRun(src, parser_next_token(src, p)) ELSE <<>>

RECURSIVE Concat(_)
Concat(texts) == IF texts = <<>> THEN "" ELSE Head(texts) \o Concat(Tail(texts))

\* an iteration on a token of one of the kinds that ends without a panic
Step(kinds) == At(kinds) /\ pc' = "parsing" /\ ret'.some

TypedRun(run) == IF run = <<>> THEN ~ret'.val.ok /\ commands' = commands /\ Len(errors') > Len(errors) ELSE ret'.val.ok /\ ret'.val.val.variant = "Type" /\ ret'.val.val.text = Concat(run) /\ commands' = Append(commands, ret'.val.val)

\* C7: Type followed, after any optional @<time>, by n >= 1 String tokens yields one
\* Type command whose text is the concatenation of all n literals in source order;
\* Type followed by no String token yields a ParseError and no command.
C7_TypeConcatenates == [][Step({"Type"}) => TypedRun(StringRun(input, parse_speed(input, Parser).p))]_vars

\* C8: on the same String tokens, Copy and Type produce commands with the same text:
\* the text of the command an iteration on Type or Copy produces is the text both
\* parse_type and parse_copy give for the String tokens that follow.
C8_CopyLikeType == [][(Step({"Type", "Copy"}) /\ peek_token.token_type = "String") => ret'.val.ok /\ ret'.val.val.text = parse_type(input, Parser).res.val.text /\ ret'.val.val.text = parse_copy(input, Parser).res.val.text]_vars

\* the commands that take an optional @<time>
SpeedKinds == KeyCommands \cup {"Type", "Ctrl", "Alt", "Shift", "Wait"}

\* a Number token whose literal is a non-negative integer
IsInteger(tok) == tok.token_type = "Number" /\ tok.literal # "" /\ CharSet(tok.literal) \subseteq Digits

\* the milliseconds in n of the unit the token kind names, seconds when it names none
InUnit(n, kind) == CASE kind = "Milliseconds" -> n [] kind = "Seconds" -> n * 1000 [] kind = "Minutes" -> n * 60 * 1000 [] OTHER -> n * 1000

\* parse_time called in p, a time position with the integer n next, gives in r the value
\* of n in the unit that follows it and has consumed the number and that unit only
TimeExact(src, p, r, unit) == r.p.panic = "none" => /\ r.dur = InUnit(IntOf(p.peek_token.literal), unit.token_type)
                                                    /\ r.p.errors = p.errors
                                                    /\ r.p.ntokens = p.ntokens + (IF unit.token_type \in TimeUnits THEN 2 ELSE 1)
                                                    /\ r.p.current_token = (IF unit.token_type \in TimeUnits THEN unit ELSE p.peek_token)

TimePosition(src, p) == IsInteger(p.peek_token) => TimeExact(src, p, parse_time(src, p), parser_next_token(src, p).peek_token)

\* C9: in every time position (after Sleep, after the @ of a command that takes a time)
\* that holds a non-negative integer n, parse_time, when it returns, gives n ms for the
\* unit ms, n s for s, 60 n s for m and n s for no unit, and consumes the number and the
\* unit token, when present, and no other token.
C9_TimeUnits == pc = "parsing" => /\ current_token.token_type = "Sleep" => TimePosition(input, Parser)
                                  /\ (current_token.token_type \in SpeedKinds /\ peek_token.token_type = "At" /\ parser_next_token(input, Parser).panic = "none") => TimePosition(input, parser_next_token(input, Parser))

\* a Sleep command of 60 s came out of `Sleep 1m' and the parser stands on the command
\* of the next line: the number and the unit were consumed, and nothing else
C9_Witness == Produced /\ ret.val.val = [variant |-> "Sleep", duration |-> Some(60000)] /\ commands = <<ret.val.val>> /\ current_token.token_type = "Hide" /\ errors = <<>>

\* the parser a command's optional @<time> is read from: after the mode group of Wait
SpeedPosition == IF current_token.token_type = "Wait" THEN WaitModeOf(input, Parser).p ELSE Parser

\* an @ with a Number after it follows
TimeGiven(p) == p.peek_token.token_type = "At" /\ parser_next_token(input, p).peek_token.token_type = "Number"

\* the Number token after the @, and the token after that Number
GivenNumber(p) == parser_next_token(input, p).peek_token

GivenUnit(p) == parser_next_token(input, parser_next_token(input, p)).peek_token

SpeedField(cmd) == IF cmd.variant = "Wait" THEN cmd.timeout ELSE cmd.rate

\* the field is None exactly when no @<time> is given in p, and holds the given time
RateAsGiven(field, p) == /\ (field.some <=> TimeGiven(p))
                         /\ ((TimeGiven(p) /\ IsInteger(GivenNumber(p))) => (field = Some(InUnit(IntOf(GivenNumber(p).literal), GivenUnit(p).token_type))))

\* C10: the rate of a key press, Type, Ctrl, Alt or Shift command and the timeout of a
\* Wait command is None exactly when no @<time> was given, and holds the time when one was.
C10_RateIffGiven == [][(Step(SpeedKinds) /\ ret'.val.ok) => RateAsGiven(SpeedField(ret'.val.val), SpeedPosition)]_vars

\* the count of a Key command read in sp, the parser after the optional @<time>: at least
\* 1, the Number that follows and that token consumed, or 1 and nothing consumed
KeyCounted(cmd, sp) == /\ cmd.repeat_count >= 1
                       /\ IsInteger(sp.peek_token) => (cmd.repeat_count = IntOf(sp.peek_token.literal) /\ ntokens' = sp.ntokens + 2)
                       /\ sp.peek_token.token_type # "Number" => (cmd.repeat_count = 1 /\ ntokens' = sp.ntokens + 1)

\* C11: every Key command has repeat_count >= 1: a Number after the key keyword (and
\* its optional @<time>) is the count and is consumed, otherwise the count is 1 and
\* nothing is consumed.
C11_RepeatAtLeastOne == [][(Step(KeyCommands) /\ ret'.val.ok) => KeyCounted(ret'.val.val, parse_speed(input, Parser).p)]_vars

RECURSIVE PlusRun(_, _)
\* the tokens that stand after each '+' of the row of +<token> groups that follows in p
PlusRun(src, p) == IF p.panic = "none" /\ p.peek_token.token_type = "Plus" THEN <<parser_next_token(src, p).peek_token>> \o PlusRun(src, parser_next_token(src, parser_next_token(src, p))) ELSE <<>>

ModifierNames == {"Alt", "Shift"}

\* every modifier name of the keys stands before every other key
ModifiersFirst(keys) == \A i, j \in 1..Len(keys) : (i < j /\ keys[j] \in ModifierNames) => keys[i] \in ModifierNames

\* a modifier group stands after a group that is not a modifier
LateModifier(run) == \E i, j \in 1..Len(run) : i < j /\ run[i].literal \notin ModifierNames /\ run[j].literal \in ModifierNames

\* the result of parse_ctrl on the row of groups run: the keys are the groups' literals
\* in order, modifiers first; a late modifier gives an error and no command
CtrlOrdered(res, run) == /\ res.ok => (res.val.keys = [i \in 1..Len(run) |-> run[i].literal] /\ ModifiersFirst(res.val.keys))
                         /\ LateModifier(run) => (~res.ok /\ commands' = commands /\ Len(errors') > Len(errors))

Recorded(message) == Len(errors') > Len(errors) /\ errors'[Len(errors')].message = message

\* the result of parse_wait when the token group stands after `Wait+'
WaitNamed(res, group) == IF group.token_type = "String" /\ group.literal \in {"Line", "Screen"} THEN res.ok => res.val.mode = group.literal ELSE ~res.ok /\ commands' = commands /\ Recorded("Wait+ expects Line or Screen")

\* the result of parse_wait in p: mode Line without a '+' group, the named mode with one
WaitModed(res, p) == IF p.peek_token.token_type # "Plus" THEN res.ok => res.val.mode = "Line" ELSE WaitNamed(res, parser_next_token(input, p).peek_token)

WaitScenario == [variant |-> "Wait", mode |-> "Screen", timeout |-> Some(5000), pattern |-> Some("ready")]

\* C13: Wait without a '+' group has mode Line; Wait+Line and Wait+Screen have the
\* modes Line and Screen; Wait+ before any other token records the ParseError `Wait+
\* expects Line or Screen' and produces no command; `Wait+Screen@5s /ready/' gives
\* mode Screen, timeout 5 s and pattern `ready'.
C13_WaitModes == [][Step({"Wait"}) => /\ WaitModed(ret'.val, Parser)
                                      /\ input \in {"Wait+Screen@5s /ready/", "Wait+Screen@5s /ready/\n"} => ret'.val = Ok(WaitScenario) /\ errors' = <<>>]_vars

\* parse_wait has produced the command of `Wait+Screen@5s /ready/'
C13_Witness == Produced /\ ret.val.val = WaitScenario /\ commands = <<WaitScenario>> /\ input = "Wait+Screen@5s /ready/"

\* the result of parse_output when the token tok follows Output: a String path that ends
\* with '/' gives the format .png, another path the format of its extension, a path
\* with neither an error; a token that is no String gives an error
OutputFormatted(res, tok) == IF tok.token_type # "String" THEN ~res.ok /\ commands' = commands /\ Len(errors') > Len(errors)
                             ELSE IF ends_with(tok.literal, "/") THEN res.ok /\ res.val.format = ".png"
                             ELSE IF extension(tok.literal).some THEN res.ok /\ res.val.format = "." \o extension(tok.literal).val
                             ELSE ~res.ok /\ commands' = commands /\ Len(errors') > Len(errors)

\* C14: Output before a String path yields an Output command whose format is .png
\* whenever the path ends with '/' and otherwise the path's extension; a path with
\* neither yields a ParseError and no command, and so does Output before a token that
\* is not a String.
C14_OutputFormat == [][Step({"Output"}) => OutputFormatted(ret'.val, peek_token)]_vars

\* the token kind the token model gives an identifier
KindOfName(w) == CASE w = "em" -> "Em" [] w = "px" -> "Px" [] w = "ms" -> "Milliseconds" [] w = "s" -> "Seconds" [] w = "m" -> "Minutes" [] w \in {"true", "false"} -> "Boolean" [] w \in MovementNames \cup CommandNames \cup SettingNames -> w [] OTHER -> "String"

\* the source is one identifier and its newline, and Parser::new has read it
LexedWord(w) == pc = "parsing" /\ ntokens = 2 /\ input = w \o "\n"

\* C15: an identifier that is exactly a time-unit, key or movement, command or setting
\* name of the token model, or true or false, lexes to that name's own kind; every
\* other identifier lexes to a String token with the identifier as literal.
C15_KeywordKinds == \A w \in IdentifierTexts : LexedWord(w) => current_token.token_type = KindOfName(w) /\ current_token.literal = w

\* an iteration leaves the command list as it is or appends the command it produced
Appended == commands' = commands \/ (ret'.some /\ ret'.val.ok /\ commands' = Append(commands, ret'.val.val))

\* an iteration on a Comment: no command, no error, one token consumed
CommentSkipped == commands' = commands /\ errors' = errors /\ ntokens' = ntokens + 1 /\ current_token' = peek_token /\ UNCHANGED ret

HideCommand == [variant |-> "Hide"]

\* the commands of two-line sources, in the order of their lines
InOrder == /\ input = "Hide\nSleep 1\n" => commands = <<HideCommand, GoodSleep>>
           /\ input = "Sleep 1\nHide\n" => commands = <<GoodSleep, HideCommand>>
           /\ input = "Sleep 1\n# c\nHide\n" => commands = <<GoodSleep, HideCommand>>
           /\ input = "Show\nSleep 1\n" => commands = <<[variant |-> "Show"], GoodSleep>>

\* C16: the command list is in source order: each iteration of parse, which reads
\* tokens that stand after those of the iterations before, appends its command at the end
\* of the list; a Comment at statement position yields no command and no ParseError and
\* consumes exactly one token.
C16_SourceOrder == [][/\ pc = "parsing" => Appended
                      /\ (pc = "parsing" /\ pc' = "parsing") => ntokens' > ntokens /\ lexer'.position >= lexer.position
                      /\ (At({"Comment"}) /\ pc' = "parsing") => CommentSkipped
                      /\ pc' = "done" => InOrder']_vars

\* a command, a comment line and a second command were parsed
C16_Witness == pc = "done" /\ input = "Sleep 1\n# c\nHide\n" /\ commands = <<GoodSleep, HideCommand>> /\ errors = <<>>

\* the lexer run on a literal alone, as its own source
Relex(literal) == next_token(literal, LexerNew(literal))

\* the first token of the literal alone is of the kind of the token
SameKindAgain(tok) == Relex(tok.literal).ok /\ Relex(tok.literal).tok.token_type = tok.token_type

\* the tokens the parser holds
Held == {current_token, peek_token}

\* the literal of a String, Number or Regex token is well formed: it is not empty, and
\* that of a Number is a decimal number
WellFormedLiteral(tok) == tok.literal # "" /\ (tok.token_type = "Number" => IsDecimal(tok.literal))

\* C17 as stated: every String, Number or Regex token with a well-formed literal
\* re-lexes, from its literal alone, to a token of the same kind.
C17_RelexSameKind == \A tok \in Held : (tok.token_type \in {"String", "Number", "Regex"} /\ WellFormedLiteral(tok)) => SameKindAgain(tok)

\* C17, amended: every Number token whose literal is a well-formed number re-lexes, from
\* its literal alone, to a Number token. (String and Regex literals are stored without
\* their delimiters and re-lex as whatever their text spells.)
C17_RelexNumber == \A tok \in Held : (tok.token_type = "Number" /\ IsDecimal(tok.literal)) => SameKindAgain(tok)

\* the parser holds the Number token of `Sleep 0.5' and its literal re-lexes to a Number
C17_Witness == pc = "parsing" /\ current_token.token_type = "Sleep" /\ peek_token.token_type = "Number" /\ peek_token.literal = "0.5" /\ SameKindAgain(peek_token)


RECURSIVE LexerBefore(_, _)
\* the lexer before the n-th call of next_token on a source
LexerBefore(src, n) == IF n = 1 THEN LexerNew(src) ELSE next_token(src, LexerBefore(src, n - 1)).lx

\* the n-th token of a source
TokenAt(src, n) == next_token(src, LexerBefore(src, n)).tok

\* the line of the source on which its n-th token starts, counted from 1: one more than
\* the number of newlines before the first character of the token
StartLine(src, n) == 1 + CountChar(SubSeq(src, 1, skip_whitespace(src, LexerBefore(src, n)).position - 1), "\n")

\* the tokens pulled so far that are tokens of the text (the Eof token starts nowhere)
TextTokens == {n \in 1..ntokens : TokenAt(input, n).token_type # "Eof"}

\* C18: every token returned by next_token carries in line the 1-based number of the
\* source line on which the token starts.
C18_TokenLines == pc = "parsing" => \A n \in TextTokens : TokenAt(input, n).line = StartLine(input, n)


\* a Boolean token spelling true or false
IsBoolean(tok) == tok.token_type = "Boolean" /\ tok.literal \in {"true", "false"}

\* the Set command of CursorBlink with the value a token spells
BlinkCommand(tok) == [variant |-> "Set", setting |-> [name |-> "CursorBlink", value |-> tok.literal = "true"]]

\* the step was on `Set CursorBlink'; p1 is the parser with the setting name consumed
\* and the value token in peek
BlinkSet(p1) == (IF IsBoolean(p1.peek_token)
                   THEN ret'.val = Ok(BlinkCommand(p1.peek_token)) /\ commands' = Append(commands, BlinkCommand(p1.peek_token)) /\ errors' = errors /\ ntokens' = p1.ntokens + 2
                   ELSE ~ret'.val.ok /\ commands' = commands /\ Len(errors') = Len(errors) + 1 /\ current_token' = p1.peek_token /\ ntokens' = p1.ntokens + 1)

\* C19: Set CursorBlink produces a Set command only when the value token is of Boolean
\* kind with literal true or false; any other value token yields a ParseError and no
\* command, and the value token is not consumed (it is the next current token).
C19_CursorBlink == [][(Step({"Set"}) /\ peek_token.token_type = "CursorBlink") => BlinkSet(parser_next_token(input, Parser))]_vars


\* the kinds get_current_command dispatches on
DispatchKinds == KeyCommands \cup UnitCommands \cup {"Set", "Output", "Sleep", "Type", "Ctrl", "Alt", "Shift", "Require", "Wait", "Screenshot", "Copy", "Env"}

\* the token at statement position starts no statement: it is of no dispatch kind (and
\* neither a Comment nor Eof), or it is Set and the token after it names no setting
NoStatement == \/ current_token.token_type \notin DispatchKinds \cup {"Comment", "Eof"}
               \/ current_token.token_type = "Set" /\ ~is_setting(peek_token.token_type)

\* one ParseError, on the token at statement position, was appended and no command; one
\* token was skipped and the token that followed it is at statement position
SkippedOne == /\ ~ret'.val.ok
              /\ Len(errors') = Len(errors) + 1
              /\ SubSeq(errors', 1, Len(errors)) = errors
              /\ errors'[Len(errors')].token = current_token
              /\ commands' = commands
              /\ ntokens' = ntokens + 1
              /\ current_token' = peek_token

\* C20: when the token at statement position is of no dispatch kind, or is Set followed
\* by a token that is no setting name, one ParseError is appended, no command is
\* appended, exactly one token is skipped and dispatch resumes at the following token.
C20_InvalidStatement == [][(pc = "parsing" /\ pc' = "parsing" /\ NoStatement) => SkippedOne]_vars

\* `Set Foo 1': Set was skipped with an error, and Foo is at statement position
C20_Witness == /\ pc = "parsing" /\ input = "Set Foo 1\n"
               /\ ret = Some(Err("Unknown setting: Foo"))
               /\ Len(errors) = 1 /\ errors[1].token.token_type = "Set"
               /\ commands = <<>>
               /\ current_token = LiteralToken("String", "Foo")


\* the lookahead window: the lexer and the two token slots
Window(lx, cur, peek) == [lexer |-> lx, current_token |-> cur, peek_token |-> peek]

\* one advance of a window: peek moves into current and the token r the lexer gives goes into peek
Shifted(w, r) == Window(r.lx, w.peek_token, r.tok)

RECURSIVE Advanced(_, _)
\* a window after k advances
Advanced(w, k) == IF k = 0 THEN w ELSE Advanced(Shifted(w, next_token(input, w.lexer)), k - 1)

\* C21: Parser::new primes the two slots with two advances from a fresh lexer, and every
\* step of a parse leaves the window as a whole number of advances leave it: current
\* takes the tokens of the lexer in order, none skipped and none twice, peek is the token
\* the lexer gave right after current, and nothing else moves the lexer.
C21_LockStep == [][pc' \in {"parsing", "done"} =>
                     /\ pc = "new" => (lexer = LexerNew(input) /\ ntokens' = 2)
                     /\ pc = "parsing" /\ pc' = "parsing" => ntokens' > ntokens
                     /\ ntokens' >= ntokens
                     /\ Window(lexer', current_token', peek_token') = Advanced(Window(lexer, current_token, peek_token), ntokens' - ntokens)]_vars

\* `Sleep 1' then `Hide': the parse is over, five tokens were pulled, Eof is in both slots
C21_Witness == pc = "done" /\ input = "Sleep 1\nHide\n" /\ ntokens = 5 /\ current_token.token_type = "Eof" /\ peek_token.token_type = "Eof" /\ Len(commands) = 2


RECURSIVE RunEnd(_, _, _)
\* the index of the last character of the maximal run, from index i on, of digits and
\* dots (number = TRUE) or of identifier characters (number = FALSE); i - 1 if there is none
RunEnd(src, i, number) == IF i <= Len(src) /\ (IF number THEN is_ascii_digit(CharAt(src, i)) \/ CharAt(src, i) = "." ELSE is_alphanumeric(CharAt(src, i)) \/ CharAt(src, i) \in {".", "-", "_", "/", "%"}) THEN RunEnd(src, i + 1, number) ELSE i - 1

RECURSIVE StopAt(_, _, _)
\* the index, from i on, of the first character in stops, or one past the end of the source
StopAt(src, i, stops) == IF i <= Len(src) /\ CharAt(src, i) \notin stops THEN StopAt(src, i + 1, stops) ELSE i

\* the first character of a Number: a digit, or a dot with a digit after it
StartsNumber(src, i) == is_ascii_digit(CharAt(src, i)) \/ (CharAt(src, i) = "." /\ i < Len(src) /\ is_ascii_digit(CharAt(src, i + 1)))

\* the text of the source that belongs to the literal of the token starting at index i
ScannedText(src, i) == IF StartsNumber(src, i) THEN SubSeq(src, i, RunEnd(src, i, TRUE))
                       ELSE IF is_alphabetic(CharAt(src, i)) THEN SubSeq(src, i, RunEnd(src, i, FALSE))
                       ELSE IF CharAt(src, i) = "#" THEN SubSeq(src, i + 1, StopAt(src, i + 1, {"\n", "\r"}) - 1)
                       ELSE SubSeq(src, i + 1, StopAt(src, i + 1, {CharAt(src, i), "\n", "\r"}) - 1)

\* the index of the first character of the n-th token of a source
StartIndex(src, n) == skip_whitespace(src, LexerBefore(src, n)).position

\* the tokens pulled so far that are a Number, an identifier or keyword, a String, a
\* Regex or a Comment
LiteralTokens == {n \in TextTokens : TokenAt(input, n).token_type \notin {"Json", "Illegal"} \cup {OperatorKind[c] : c \in DOMAIN OperatorKind}}

\* C22: the literal of every Number, identifier or keyword, String, Regex and Comment
\* token is exactly the text scanned for it, the maximal run of permitted characters or
\* the text strictly between the opener and the terminator, line end or end of input,
\* whether more input follows the token or not.
C22_LiteralIsScannedText == pc = "parsing" => \A n \in LiteralTokens : TokenAt(input, n).literal = ScannedText(input, StartIndex(input, n))


\* the number of characters of the source the lexer has consumed: those before
\* current_char, or all of them at end of input
Consumed(src, lx) == IF lx.current_char.some THEN lx.position - 1 ELSE Len(src)

\* the newlines among the first k characters of a source
NewlinesIn(src, k) == {i \in 1..k : CharAt(src, i) = "\n"}

\* the index of the last newline among the first k characters, 0 if there is none
LastNewline(src, k) == IF NewlinesIn(src, k) = {} THEN 0 ELSE CHOOSE i \in NewlinesIn(src, k) : \A j \in NewlinesIn(src, k) : j <= i

\* the line counter is 1 plus the number of newlines consumed
LineCounted(src, lx) == lx.line = 1 + Cardinality(NewlinesIn(src, Consumed(src, lx)))

\* the column was reset at the last newline consumed: it counts the characters read since
ColumnReset(src, lx) == lx.current_char.some => lx.column = lx.position - LastNewline(src, Consumed(src, lx))

\* C23: the line counter of the lexer always equals 1 plus the number of newline
\* characters consumed so far, whichever scanning rule consumed them, and the column is
\* reset on each of those newlines.
C23_LineCounter == pc = "parsing" => LineCounted(input, lexer) /\ ColumnReset(input, lexer)


\* the command reads its optional @<time> (a Wait after a well-formed mode group), and
\* an @ follows with no Number after it
AtAlone(p) == /\ current_token.token_type = "Wait" => WaitModeOf(input, Parser).res.ok
              /\ p.peek_token.token_type = "At"
              /\ GivenNumber(p).token_type # "Number"

\* parse_speed called in p gave r: no duration, one more ParseError, on the @, and no
\* token consumed beyond the @
TimeMissing(p, r) == /\ r.dur = ZeroDuration
                     /\ Len(r.p.errors) = Len(p.errors) + 1
                     /\ r.p.errors[Len(r.p.errors)].token = p.peek_token
                     /\ r.p.ntokens = p.ntokens + 1
                     /\ r.p.current_token = p.peek_token
                     /\ r.p.peek_token = GivenNumber(p)

\* the sub-parser went on after the missing time: the error on the @ is recorded first,
\* a key press is always produced, and a command that is produced has no rate or timeout
AfterMissing == /\ Len(errors') > Len(errors)
                /\ errors'[Len(errors) + 1].token.token_type = "At"
                /\ current_token.token_type \in KeyCommands => ret'.val.ok
                /\ ret'.val.ok => (SpeedField(ret'.val.val) = None /\ commands' = Append(commands, ret'.val.val) /\ Len(errors') = Len(errors) + 1)

\* C24: when @ is not followed by a Number token, parse_time records exactly one
\* ParseError whose token is the @, consumes no token beyond the @, and the sub-parser
\* continues: the command is still produced when its other arguments are well formed,
\* with its rate or timeout absent.
C24_MissingTime == [][(Step(SpeedKinds) /\ AtAlone(SpeedPosition)) => (TimeMissing(SpeedPosition, parse_speed(input, SpeedPosition)) /\ AfterMissing)]_vars

\* `Enter@': the key press was produced with no rate, and the error on the @ recorded
C24_Witness == /\ Produced /\ input = "Enter@\n"
               /\ ret.val.val.variant = "Key" /\ ret.val.val.rate = None
               /\ commands = <<ret.val.val>>
               /\ Len(errors) = 1 /\ errors[1].token.token_type = "At"


\* the unit tokens a duration setting takes
UnitsOf(name) == IF name = "TypingSpeed" THEN {"Milliseconds", "Seconds"} ELSE {"Milliseconds", "Seconds", "Minutes"}

\* the milliseconds in one of the unit a token kind names
MillisIn(kind) == CASE kind = "Milliseconds" -> 1 [] kind = "Minutes" -> 60 * MillisPerSec [] OTHER -> MillisPerSec

\* dur, in milliseconds, is exactly the decimal value x of the unit
ExactlyIn(dur, x, kind) == dur * x.den = x.num * MillisIn(kind)

\* the Set command of a duration setting
DurationSet(name, dur) == [variant |-> "Set", setting |-> [name |-> name, value |-> dur]]

\* the value token is a Number that spells a decimal value
IsNumeral(tok) == tok.token_type = "Number" /\ IsDecimal(tok.literal)

\* the value n is stored in the unit token that follows it, when the setting takes it, and
\* in seconds otherwise; the unit token is consumed only when it is taken
DurationStored(name, n, unit) == /\ ret'.val.ok
                                 /\ ret'.val.val.variant = "Set" /\ ret'.val.val.setting.name = name
                                 /\ ExactlyIn(ret'.val.val.setting.value, DecimalOf(n.literal), IF unit.token_type \in UnitsOf(name) THEN unit.token_type ELSE "Seconds")
                                 /\ commands' = Append(commands, ret'.val.val)
                                 /\ ntokens' = ntokens + (IF unit.token_type \in UnitsOf(name) THEN 4 ELSE 3)

\* the step was on Set with the duration setting `name'; p1 has the value token in peek
DurationSetting(name, p1) == /\ p1.peek_token.token_type # "Number" => (~ret'.val.ok /\ commands' = commands /\ Len(errors') = Len(errors) + 1)
                             /\ IsNumeral(p1.peek_token) => DurationStored(name, p1.peek_token, parser_next_token(input, p1).peek_token)

\* C25: Set TypingSpeed and Set WaitTimeout require a Number value token (otherwise a
\* ParseError and no command); TypingSpeed consumes a following unit token only if it is
\* ms or s, WaitTimeout only if it is ms, s or m; the stored duration is n ms, n s or
\* 60 n s for the consumed unit and n seconds when no unit is consumed.
C25_DurationSettings == [][(Step({"Set"}) /\ peek_token.token_type \in {"TypingSpeed", "WaitTimeout"}) => DurationSetting(peek_token.token_type, parser_next_token(input, Parser))]_vars


\* the unit a time is in: the unit token that follows the number, seconds without one
UnitAfter(tok) == IF tok.token_type \in TimeUnits THEN tok.token_type ELSE "Seconds"

\* the Number token n spells a strictly positive value that is a whole number of
\* milliseconds in the unit
PositiveTime(n, kind) == IsNumeral(n) /\ DecimalOf(n.literal).num > 0 /\ (DecimalOf(n.literal).num * MillisIn(kind)) % DecimalOf(n.literal).den = 0

\* the field of the command holds exactly the value of n in the unit, a positive duration
TimeKept(field, n, kind) == field.some /\ field.val > 0 /\ ExactlyIn(field.val, DecimalOf(n.literal), kind)

\* the time after Sleep
SleepTimeKept(n, unit) == PositiveTime(n, UnitAfter(unit)) => (ret'.val.ok /\ TimeKept(ret'.val.val.duration, n, UnitAfter(unit)))

\* the time after the @ of a command that was produced
RateTimeKept(p) == (TimeGiven(p) /\ PositiveTime(GivenNumber(p), UnitAfter(GivenUnit(p))) /\ ret'.val.ok) => TimeKept(SpeedField(ret'.val.val), GivenNumber(p), UnitAfter(GivenUnit(p)))

\* C28: a time value with a fractional part is converted to a Duration without losing
\* the fraction (0.5s is 500 ms, 1.5s is 1500 ms, 0.5 with no unit is 500 ms), so every
\* strictly positive time value after Sleep or @ yields a present, strictly positive
\* duration.
C28_FractionKept == [][/\ Step({"Sleep"}) => SleepTimeKept(peek_token, parser_next_token(input, Parser).peek_token)
                       /\ Step(SpeedKinds) => RateTimeKept(SpeedPosition)]_vars


\* the token may stand as a key after Ctrl+: a modifier name, one of the special keys, or
\* a String of one character
CtrlPermitted(tok) == tok.literal \in ModifierNames \/ tok.token_type \in CtrlKeys \/ (tok.token_type = "String" /\ Len(tok.literal) = 1)

\* the token may stand as the key after Alt+ or Shift+
AltPermitted(tok) == tok.token_type \in {"String", "Enter", "LeftBracket", "RightBracket", "Tab"}

\* the statement gave a ParseError and no command
Refused == ~ret'.val.ok /\ commands' = commands /\ Len(errors') > Len(errors)

\* the statement gave a command with keys, which was appended
KeyedCommand == commands' = Append(commands, ret'.val.val) /\ Len(ret'.val.val.keys) >= 1

\* the step was on Ctrl, with the row of +<key> groups run after the optional @<time>
CtrlKeyed(run) == /\ ret'.val.ok => KeyedCommand
                  /\ run = <<>> => Refused
                  /\ (\E i \in 1..Len(run) : ~CtrlPermitted(run[i])) => Refused

\* the step was on Alt or Shift, with the row of +<key> groups run after the optional @<time>
AltKeyed(run) == /\ ret'.val.ok => (KeyedCommand /\ Len(ret'.val.val.keys) = 1 /\ ret'.val.val.keys[1] = run[1].literal)
                 /\ run = <<>> => Refused
                 /\ (run # <<>> /\ ~AltPermitted(run[1])) => Refused

\* C26: every Ctrl command produced has at least one key and every Alt or Shift command
\* produced has exactly one key; a Ctrl, Alt or Shift keyword with no +<key> group after
\* it, or with a key of a kind not permitted for it, yields a ParseError and no command.
C26_KeysPresent == [][/\ Step({"Ctrl"}) => CtrlKeyed(PlusRun(input, parse_speed(input, Parser).p))
                      /\ Step({"Alt", "Shift"}) => AltKeyed(PlusRun(input, parse_speed(input, Parser).p))]_vars

\* `Alt+Tab' has produced a command with the one key Tab
C26_Witness == Produced /\ input = "Alt+Tab\n" /\ ret.val.val.keys = <<"Tab">> /\ commands = <<ret.val.val>> /\ errors = <<>>


\* a step of the loop of parse that dispatched on the token at statement position
Dispatched == pc = "parsing" /\ pc' = "parsing" /\ current_token.token_type \notin {"Comment", "Eof"}

\* n errors were appended to the error list
ErrorsAdded(n) == Len(errors') = Len(errors) + n /\ SubSeq(errors', 1, Len(errors)) = errors

\* one command and no error
OneCommand == ret'.val.ok /\ commands' = Append(commands, ret'.val.val) /\ ErrorsAdded(0)

\* one error and no command
OneError == ~ret'.val.ok /\ commands' = commands /\ ErrorsAdded(1)

\* the statement has an @ with no Number after it, where its command reads a time
TimeLeftOut == current_token.token_type \in SpeedKinds /\ AtAlone(SpeedPosition)

\* the error parse_time recorded for the @, then the outcome of the sub-parser: its
\* command, or its own error and no command
AfterTimeError == /\ errors'[Len(errors) + 1].token.token_type = "At"
                  /\ \/ ret'.val.ok /\ commands' = Append(commands, ret'.val.val) /\ ErrorsAdded(1)
                     \/ ~ret'.val.ok /\ commands' = commands /\ ErrorsAdded(2)

\* C27 as stated: each dispatch at statement position adds exactly one entry in total
\* to the command list and the error list, one command and no error or one error and
\* no command.
C27_OneEntry == [][Dispatched => (OneCommand \/ OneError)]_vars

\* C27, amended: each dispatch adds one command and no error, or one error and no
\* command, unless the statement has an @ with no Number after it: then parse_time
\* records an error for the @ and the dispatch adds, after it, the command or the
\* error of the sub-parser. A sub-parser that returns an error leaves the command list
\* unchanged, and at most one command is added.
C27_OneOutcome == [][Dispatched => IF TimeLeftOut THEN AfterTimeError ELSE (OneCommand \/ OneError)]_vars

\* `Alt@': the error of parse_time for the @ and the error of parse_alt, and no command
C27_Witness == /\ pc = "parsing" /\ input = "Alt@\n" /\ ret.some /\ ~ret.val.ok
               /\ commands = <<>> /\ Len(errors) = 2
               /\ errors[1].token.token_type = "At" /\ errors[2].token.token_type = "At"


\* the tokens a dispatch consumed after the token at statement position: current_token
\* is token number ntokens - 1 of the source, and the next statement starts at token
\* number ntokens' - 1
TakenByStatement == {TokenAt(input, n) : n \in ntokens..(ntokens' - 2)}

\* C29: the text of a Comment token never becomes part of a command: no dispatch that
\* produces a command has consumed a Comment token as an argument of the command or as
\* the value of a setting.
C29_CommentNoArgument == [][(Dispatched /\ ret'.val.ok) => \A tok \in TakenByStatement : tok.token_type # "Comment"]_vars


\* the listeners that still hold a Sender of the wakeup channel
Senders == {l \in Listeners : mister[l]}

\* C30: once the Exit event of the terminal has been delivered to the listener, every
\* Sender of the wakeup channel has been dropped (so that recv() returns an error once
\* the channel is empty, and the capture loop ends with fewer than 10 wakeups).
C30_ExitDropsSenders == (\E l \in Listeners : exited[l]) => Senders = {}

====
